---- MODULE Spec2Model ----
(***************************************************************************)
(* Auto-Doc-AI: the extraction pipeline of the documents app, and the      *)
(* registration, verification and password-reset views of the              *)
(* authentication app (users, passcodes and the requests in flight).       *)
(*                                                                         *)
(* The state is the two tables the pipeline writes (ExtractionJob and      *)
(* ExtractedData), the Celery executions of process_document_task (queued, *)
(* running or finished) and the extract requests of DocumentViewSet that   *)
(* are in flight.  Every database statement of a handler is one atomic     *)
(* step; the project sets neither ATOMIC_REQUESTS nor a transaction around *)
(* these handlers, so the steps of different handlers interleave.          *)
(*                                                                         *)
(* Time.  timezone.now() is read as a clock that strictly increases from   *)
(* one reading to the next.  A stored timestamp is then NULL or SET, a     *)
(* timestamp being written is NOW, and NOW is later than every SET one.    *)
(***************************************************************************)
EXTENDS Integers, Sequences, FiniteSets, TLC

(***************************************************************************)
(* Bounds of the model.                                                    *)
(***************************************************************************)
MaxTasks == 5
MaxDeliveries == 2
MaxApiCalls == 3
MaxItems == 2
MaxPosts == 3

(***************************************************************************)
(* Program constants.                                                      *)
(***************************************************************************)
max_retries == 3
MinTextLength == 10

PENDING == "pending"
PROCESSING == "processing"
COMPLETED == "completed"
FAILED == "failed"
ProcessingStatus == {PENDING, PROCESSING, COMPLETED, FAILED}

NULL == "NULL"
SET == "SET"
NOW == "NOW"
POSITIVE == "POSITIVE"

Documents == {"d1", "d2"}
document_type(d) == IF d = "d1" THEN "invoice" ELSE "other"
file_format(d) == IF d = "d1" THEN "pdf" ELSE "png"
\* The images _prepare_document_images makes of the file: one per page of a
\* PDF, one of an image.
page_count(d) == IF file_format(d) = "pdf" THEN 2 ELSE 1

FakeJobId == 0

(***************************************************************************)
(* Python dicts are functions whose domain is the set of keys.             *)
(***************************************************************************)
EmptyDict == <<>>
DictSet(d, k, v) == [x \in (DOMAIN d) \cup {k} |-> IF x = k THEN v ELSE d[x]]
DictUpdate(d, e) == [x \in (DOMAIN d) \cup (DOMAIN e) |-> IF x \in DOMAIN e THEN e[x] ELSE d[x]]
HasKey(d, k) == k \in DOMAIN d


(***************************************************************************)
(* OpenAIExtractionService (documents/services/openai_service.py).         *)
(* The vision engine is a black box: per page it answers or raises.        *)
(***************************************************************************)
ConnectionError == "Connection error."
PrepareError == "Unable to get page count."
ServiceError == "OpenAI API Error"

\* What the engine answers for page n of total (the envelope of the prompt).
EnginePage(n, total) ==
    [document_type |-> "invoice",
     financial_data |-> [line_items |-> <<n>>],
     extracted_fields |-> [page_ref |-> n],
     text_content |-> <<n>>,
     metadata |-> [page_number |-> n, total_pages |-> total]]

\* _extract_from_image: an exception of the engine call becomes a sentinel.
extract_from_image(answer, page_num, total_pages) ==
    IF answer = "ok"
    THEN EnginePage(page_num, total_pages)
    ELSE [error |-> ConnectionError, page |-> page_num]

get_fallback_data(error_message) ==
    [document_type |-> "unknown",
     extraction_status |-> "failed",
     error |-> error_message,
     extracted_fields |-> EmptyDict,
     metadata |-> [extraction_method |-> "openai_vision", status |-> "failed"]]

\* Python's None where a page holds it in the place of a dict.
PyNone == [py |-> "None"]

\* The locals of _merge_page_data: merged, the shallow copy of the first
\* page; first, page_data_list[0] itself, whose nested dicts and lists are
\* the objects merged holds under the same keys; raised, an exception has
\* reached line 403.
MergeState(merged, first, raised) ==
    [merged |-> merged, first |-> first, raised |-> raised]

\* merged[key] = {} when the key is missing (lines 374-377, 383-384, 389-390).
SetDefault(merged, key, value) ==
    IF HasKey(merged, key) THEN merged ELSE DictSet(merged, key, value)

\* A nested dict is replaced in merged and, when the first page holds the
\* same object under that key, in the first page too.
SetNested(s, merged, key, value) ==
    MergeState(DictSet(merged, key, value),
               IF HasKey(s.first, key) THEN DictSet(s.first, key, value) ELSE s.first,
               FALSE)

\* Line 378: list.extend on merged['financial_data']['line_items'].
Extended(fd, line_items) ==
    DictSet(fd, "line_items",
            (IF HasKey(fd, "line_items") THEN fd["line_items"] ELSE <<>>) \o line_items)

ExtendLineItemsOnCopy(s, merged, page_data) ==
    IF merged["financial_data"] = PyNone
    THEN MergeState(merged, s.first, TRUE)
    ELSE MergeState(DictSet(merged, "financial_data",
                        Extended(merged["financial_data"],
                                 page_data["financial_data"]["line_items"])),
                    s.first, FALSE)

ExtendLineItems(s, merged, page_data) ==
    IF merged["financial_data"] = PyNone
    THEN MergeState(merged, s.first, TRUE)
    ELSE SetNested(s, merged, "financial_data",
                   Extended(merged["financial_data"],
                            page_data["financial_data"]["line_items"]))

\* Lines 373-380: extend the line items.  'in' on None, and a subscript of
\* None, raise TypeError.
MergeLineItems(s, page_data) ==
    IF s.raised \/ ~HasKey(page_data, "financial_data") THEN s
    ELSE IF page_data["financial_data"] = PyNone THEN [s EXCEPT !.raised = TRUE]
    ELSE IF ~HasKey(page_data["financial_data"], "line_items") THEN s
    ELSE ExtendLineItems(s, SetDefault(s.merged, "financial_data", EmptyDict), page_data)

UpdateFields(s, merged, page_data) ==
    IF merged["extracted_fields"] = PyNone \/ page_data["extracted_fields"] = PyNone
    THEN MergeState(merged, s.first, TRUE)
    ELSE SetNested(s, merged, "extracted_fields",
                   DictUpdate(merged["extracted_fields"], page_data["extracted_fields"]))

\* Lines 382-386: dict.update on the fields of the merged page.
MergeFields(s, page_data) ==
    IF s.raised \/ ~HasKey(page_data, "extracted_fields") THEN s
    ELSE UpdateFields(s, SetDefault(s.merged, "extracted_fields", EmptyDict), page_data)

AppendText(s, merged, page_data) ==
    MergeState(DictSet(merged, "text_content",
                   merged["text_content"] \o <<0>> \o page_data["text_content"]),
               s.first, FALSE)

\* Lines 388-392: the text of the page after a blank line (<<0>>); a str is
\* immutable, so only merged is rebound.
MergeText(s, page_data) ==
    IF s.raised \/ ~(HasKey(page_data, "text_content") /\ page_data["text_content"] # <<>>)
    THEN s
    ELSE AppendText(s, SetDefault(s.merged, "text_content", <<>>), page_data)

\* One iteration of the loop of _merge_page_data over page_data_list[1:].
MergeOne(s, page_data) ==
    MergeText(MergeFields(MergeLineItems(s, page_data), page_data), page_data)

RECURSIVE MergeFrom(_, _, _)
MergeFrom(s, page_data_list, i) ==
    IF i > Len(page_data_list) \/ s.raised THEN s
    ELSE MergeFrom(MergeOne(s, page_data_list[i]), page_data_list, i + 1)

\* Lines 394-396.
MergeMetadata(s, total_pages) ==
    IF s.raised \/ ~HasKey(s.merged, "metadata") THEN s
    ELSE IF s.merged["metadata"] = PyNone THEN [s EXCEPT !.raised = TRUE]
    ELSE SetNested(s, s.merged, "metadata",
                   DictSet(s.merged["metadata"], "total_pages", total_pages))

\* Line 400 returns merged; line 406 returns the first page as the loop has
\* left it.
Returned(s) == IF s.raised THEN s.first ELSE s.merged

Merged(page_data_list) ==
    Returned(MergeMetadata(
                 MergeFrom(MergeState(page_data_list[1], page_data_list[1], FALSE),
                           page_data_list, 2),
                 Len(page_data_list)))

merge_page_data_always_merged(page_data_list) ==
    IF page_data_list = <<>> THEN get_fallback_data("No data extracted")
    ELSE Merged(page_data_list)

\* Lines 359-406.
merge_page_data(page_data_list) ==
    IF page_data_list = <<>> THEN get_fallback_data("No data extracted")
    ELSE IF Len(page_data_list) = 1 THEN page_data_list[1]
    ELSE Merged(page_data_list)

\* The ways one call of the vision path can go: the service or its call
\* raises into the task, the document cannot be turned into images, or the
\* engine is called once per page and answers or raises for each.
VisionScenarios(doc) ==
    {[fault |-> "service", pages |-> <<>>], [fault |-> "prepare", pages |-> <<>>]}
    \cup {[fault |-> "none", pages |-> a] : a \in [1..page_count(doc) -> {"ok", "raises"}]}

extract_universal_data(scenario) ==
    IF scenario.fault = "prepare" THEN get_fallback_data(PrepareError)
    ELSE merge_page_data([i \in 1..Len(scenario.pages) |->
             extract_from_image(scenario.pages[i], i, Len(scenario.pages))])

(***************************************************************************)
(* OCRService and AIExtractionService (the local fallback).                *)
(***************************************************************************)
OcrError == "OCR failed"
InsufficientText == "Insufficient text extracted from document (less than 10 characters)"

LocalScenarios ==
    {[ocr |-> "raises", text_length |-> 0, ai |-> "ok"],
     [ocr |-> "ok", text_length |-> 9, ai |-> "ok"],
     [ocr |-> "ok", text_length |-> 12, ai |-> "ok"],
     [ocr |-> "ok", text_length |-> 12, ai |-> "fails"]}

get_fallback_invoice_data ==
    [vendor |-> "Unknown", invoice_number |-> "N/A", date |-> NULL, due_date |-> NULL,
     subtotal |-> 0, tax |-> 0, total |-> 0, currency |-> "USD", items |-> <<>>,
     extraction_status |-> "failed"]

extract_invoice_data(ai) ==
    IF ai = "ok"
    THEN [vendor |-> "ACME", invoice_number |-> "INV-1", date |-> "2024-12-03",
          due_date |-> NULL, subtotal |-> 40, tax |-> 10, total |-> 50,
          currency |-> "USD", items |-> <<1>>]
    ELSE get_fallback_invoice_data

extract_generic_data(text_length, doc_type) ==
    [document_type |-> doc_type, text_preview |-> text_length,
     text_length |-> text_length, message |-> "Generic extraction"]

extract_data(scenario, doc_type) ==
    IF doc_type = "invoice" THEN extract_invoice_data(scenario.ai)
    ELSE extract_generic_data(scenario.text_length, doc_type)

(***************************************************************************)
(* calculate_confidence (documents/tasks.py).                              *)
(* A field value is written as its Python literal; the text is its length  *)
(* (the function reads only its truth value and len); the score is in      *)
(* hundredths, as round(confidence, 2) leaves it.                          *)
(***************************************************************************)
PyValues ==
    {"None", "'Unknown'", "'N/A'", "[]", "0", "'ACME'", "1000", "{'a': None}", "{'a': 1}"}

\* bool(value).
Truthy(value) == value \notin {"None", "[]", "0", "''", "{}"}
\* isinstance(value, dict).
IsDict(value) == value \in {"{}", "{'a': None}", "{'a': 1}"}
\* any(v for v in value.values() if v).
AnyContent(value) == value = "{'a': 1}"

\* Line 311: key.startswith('_') or key in ['extraction_status', 'error'].
UnderscoreKeys == {"_metadata"}
Skipped(key) == key \in UnderscoreKeys \/ key \in {"extraction_status", "error"}

\* Lines 317-323: the field has a meaningful value.
Filled(value) ==
    /\ Truthy(value)
    /\ value # "'Unknown'"
    /\ value # "'N/A'"
    /\ value # "[]"
    /\ value # "None"
    /\ IsDict(value) => AnyContent(value)

total_fields(data) == Cardinality({key \in DOMAIN data : ~Skipped(key)})
filled_fields(data) ==
    Cardinality({key \in DOMAIN data : ~Skipped(key) /\ Filled(data[key])})

Min(a, b) == IF a < b THEN a ELSE b
Max(a, b) == IF a > b THEN a ELSE b

\* round(a / b) to the nearest integer.  The quotient is a binary float: when
\* it is an exact half in the reals, the float lies on either side of it and
\* both neighbours are possible results.
Round(a, b) ==
    LET q == a \div b
        r == a % b
    IN IF 2 * r > b THEN {q + 1} ELSE IF 2 * r = b THEN {q, q + 1} ELSE {q}

calculate_confidence_without_default(data, text_length) ==
    LET total == Max(1, total_fields(data))
        filled == filled_fields(data)
        confidence ==
            IF text_length > 0
            THEN Round(70000 * filled + 30 * Min(text_length, 1000) * total,
                       1000 * total)
            ELSE Round(95 * filled, total)
    IN {Max(0, Min(100, c)) : c \in confidence}

\* Lines 325-340, in hundredths:
\*   text:    0.7 * filled / total + 0.3 * min(len / 1000, 1)
\*   no text: 0.95 * filled / total
\* clamped to [0, 1] and rounded to two places.
calculate_confidence(data, text_length) ==
    IF total_fields(data) = 0
    THEN {50}
    ELSE LET total == total_fields(data)
             filled == filled_fields(data)
             confidence ==
                 IF text_length > 0
                 THEN Round(70000 * filled + 30 * Min(text_length, 1000) * total,
                            1000 * total)
                 ELSE Round(95 * filled, total)
         IN {Max(0, Min(100, c)) : c \in confidence}

ScoredKeys == {"vendor", "total", "date"}
SkippedKeys == {"_metadata", "extraction_status", "error"}

\* The field maps the function is called with.
FieldMaps ==
    {DictUpdate(scored, skipped) :
        scored \in UNION {[S -> PyValues] : S \in SUBSET ScoredKeys},
        skipped \in UNION {[S -> {"'failed'"}] : S \in SUBSET SkippedKeys}}

TextLengths == {0, 9, 13, 16, 17, 1000, 1500}

(***************************************************************************)
(* _extract_json (documents/services/openai_service.py and, statement for  *)
(* statement, documents/services/ai_service.py).  A str is the sequence of *)
(* its characters, the grave accent being written "grave".                 *)
(***************************************************************************)
CodeFence == <<"grave", "grave", "grave">>
JsonCodeFence == CodeFence \o <<"j", "s", "o", "n">>

\* str.replace: the occurrences of old, found from the left and not
\* overlapping, become new.
RECURSIVE replace(_, _, _)
replace(text, old, new) ==
    IF Len(text) < Len(old) THEN text
    ELSE IF SubSeq(text, 1, Len(old)) = old
         THEN new \o replace(SubSeq(text, Len(old) + 1, Len(text)), old, new)
         ELSE <<Head(text)>> \o replace(Tail(text), old, new)

\* str.strip: leading and trailing whitespace goes.
strip(text) ==
    LET kept == {i \in 1..Len(text) : text[i] \notin {" ", "\n"}}
    IN IF kept = {} THEN <<>>
       ELSE SubSeq(text, CHOOSE i \in kept : \A j \in kept : i <= j,
                         CHOOSE i \in kept : \A j \in kept : i >= j)

\* json.loads on the texts it meets here: an object of no member or of one
\* member whose key and value are strings without escapes, with whitespace
\* around it; any other text met here is not JSON.
json_loads(s) ==
    LET t == strip(s)
        n == Len(t)
        quotes == {i \in 1..n : t[i] = "\""}
        closing == {a \in 3..(n - 4) : /\ quotes = {2, a, a + 2, n - 1}
                                       /\ t[1] = "{" /\ t[a + 1] = ":" /\ t[n] = "}"}
    IN IF t = <<"{", "}">> THEN [raised |-> FALSE, value |-> EmptyDict]
       ELSE IF closing = {} THEN [raised |-> TRUE, value |-> EmptyDict]
       ELSE LET a == CHOOSE a \in closing : TRUE
            IN [raised |-> FALSE,
                value |-> [key \in {SubSeq(t, 3, a - 1)} |-> SubSeq(t, a + 3, n - 2)]]

\* _extract_json: drop the fence markers, cut from the first '{' to the
\* last '}', parse; a JSONDecodeError is raised to the caller.
extract_json(text) ==
    LET cleaned_text == strip(replace(replace(text, JsonCodeFence, <<>>), CodeFence, <<>>))
        braces == {i \in 1..Len(cleaned_text) : cleaned_text[i] = "{"}
        closers == {i \in 1..Len(cleaned_text) : cleaned_text[i] = "}"}
        start == IF braces = {} THEN -1
                 ELSE (CHOOSE i \in braces : \A j \in braces : i <= j) - 1
        end == IF closers = {} THEN 0
               ELSE CHOOSE i \in closers : \A j \in closers : i >= j
    IN IF start # -1 /\ end > start
       THEN json_loads(SubSeq(cleaned_text, start + 1, end))
       ELSE json_loads(cleaned_text)

\* The JSON object texts an engine can answer with, and such a text inside
\* one layer of fence markers.
ObjectTexts ==
    {<<"{", "}">>}
    \cup {<<"{", "\"">> \o key \o <<"\"", ":", "\"">> \o value \o <<"\"", "}">> :
             key \in {<<"k">>, <<"grave">>},
             value \in {<<>>, <<"v">>, <<"grave", "grave">>, CodeFence, <<"a">> \o CodeFence \o <<"b">>,
                        JsonCodeFence, <<"{", "}">>, <<"}", " ", "{">>}}

Fenced(opening, text) == opening \o <<"\n">> \o text \o <<"\n">> \o CodeFence

(***************************************************************************)
(* OCRService.extract_text (documents/services/ocr_service.py).  The file  *)
(* is its suffix without the dot, lowered; recognition is a black box that *)
(* answers here.                                                           *)
(***************************************************************************)
\* The formats the Document model accepts (doc_valid_file_format).
file_formats == {"pdf", "jpg", "jpeg", "png", "tiff", "bmp", "webp"}

\* direct_length is the length of the text a PDF holds without recognition.
extract_text(file_ext, direct_length) ==
    IF file_ext = "pdf"
    THEN [pages |-> 2, method |-> IF direct_length < 50 THEN "ocr" ELSE "direct"]
    ELSE IF file_ext \in {"jpg", "jpeg", "png"}
         THEN [pages |-> 1, method |-> "ocr"]
         ELSE [raised |-> "Unsupported file type"]

(***************************************************************************)
(* State.                                                                  *)
(*   settings   USE_OPENAI and OPENAI_API_KEY of the deployment            *)
(*   jobs       the ExtractionJob table, in creation order (id = index)    *)
(*   extracted  the ExtractedData table, in creation order                 *)
(*   tasks      the executions of process_document_task: queued messages,  *)
(*              running executions with their locals, finished ones        *)
(*   requests   the extract requests of DocumentViewSet with their locals  *)
(*   call       one call of a helper function (calculate_confidence,        *)
(*              _merge_page_data) with its arguments and what it returned   *)
(*   users      the User table of the authentication app, in creation     *)
(*              order (id = index); a deleted row keeps its place          *)
(*   passcodes  the Passcode table, likewise; the code of a row is its id  *)
(*   posts      the requests to the authentication views with their locals *)
(***************************************************************************)
VARIABLES settings, jobs, extracted, tasks, requests, call, users, passcodes, posts

vars == <<settings, jobs, extracted, tasks, requests, call, users, passcodes, posts>>

NoCall == [fn |-> "none"]

JobIds == DOMAIN jobs
TaskIds == DOMAIN tasks
RequestIds == DOMAIN requests

(***************************************************************************)
(* documents/models.py                                                     *)
(***************************************************************************)
\* ExtractionJob.objects.create(document=d): the defaults of the model.
NewJob(d) ==
    [document |-> d, status |-> PENDING, started_at |-> NULL, completed_at |-> NULL,
     error_message |-> NULL, retry_count |-> 0, processing_time_seconds |-> NULL]

\* a >= b for two timestamps of a row being written.
Gte(a, b) == a = NOW \/ b # NOW

\* Meta.constraints of ExtractionJob, evaluated by the database on the row
\* as it would be after the write.
CheckConstraints(row) ==
    /\ row.retry_count >= 0
    /\ row.processing_time_seconds \in {NULL, POSITIVE}
    /\ \/ row.started_at = NULL
       \/ row.completed_at = NULL
       \/ Gte(row.completed_at, row.started_at)

CheckViolation == "CHECK constraint failed: job_valid_timestamps"
UniqueViolation == "UNIQUE constraint failed: documents_extracteddata.extraction_job_id"

\* The row as stored: the instant of the write becomes a past instant.
Stored(row) ==
    [row EXCEPT !.started_at = IF @ = NOW THEN SET ELSE @,
                !.completed_at = IF @ = NOW THEN SET ELSE @]

\* The rows of ExtractedData that belong to job j (OneToOneField: unique).
RowsOf(j) == {i \in DOMAIN extracted : extracted[i].extraction_job = j}

NewExtractedData(j, data, method) ==
    [extraction_job |-> j, data |-> data, extraction_method |-> method]

(***************************************************************************)
(* process_document_task (documents/tasks.py)                              *)
(***************************************************************************)
NoResult == [status |-> "none"]
JobNotFoundResult == [status |-> "error", message |-> "Job not found"]

NewTask(job_id, retries, countdown) ==
    [pc |-> "queued", job_id |-> job_id, retries |-> retries, countdown |-> countdown,
     extraction_method |-> "unknown", page_errors |-> 0, error |-> NULL,
     retry_count |-> 0, result |-> NoResult]

use_openai == settings.USE_OPENAI /\ settings.OPENAI_API_KEY # ""

\* An exception reaches the handler of line 252; the locals of the try block
\* are dead from here on.
Raised(task, message) ==
    [task EXCEPT !.pc = "fail", !.error = message, !.extraction_method = "unknown",
                 !.page_errors = 0]

Finished(task, result) ==
    [task EXCEPT !.pc = "done", !.result = result, !.extraction_method = "unknown",
                 !.page_errors = 0]

JobNotFoundRetried(t) ==
    /\ tasks' = IF tasks[t].retries < max_retries
                THEN Append([tasks EXCEPT ![t] = Finished(@, JobNotFoundResult)],
                            NewTask(tasks[t].job_id, tasks[t].retries + 1, 0))
                ELSE [tasks EXCEPT ![t] = Finished(@, JobNotFoundResult)]
    /\ UNCHANGED <<users, passcodes, posts, call, settings, jobs, extracted, requests>>

\* Lines 52-54: no such job.
JobNotFound(t) ==
    /\ tasks' = [tasks EXCEPT ![t] = Finished(@, JobNotFoundResult)]
    /\ UNCHANGED <<users, passcodes, posts, call, settings, jobs, extracted, requests>>

\* Lines 56-59: status PROCESSING, started_at now, saved with update_fields.
ProcessingRow(job) == [job EXCEPT !.status = PROCESSING, !.started_at = NOW]

\* Lines 46-79: a worker takes the message, loads the job and marks it.
StartTask(t) ==
    /\ tasks[t].pc = "queued"
    /\ LET j == tasks[t].job_id IN
       IF j \notin JobIds
       THEN JobNotFound(t)
       ELSE IF CheckConstraints(ProcessingRow(jobs[j]))
            THEN /\ jobs' = [jobs EXCEPT ![j] = Stored(ProcessingRow(@))]
                 /\ tasks' = [tasks EXCEPT ![t].pc = "extract"]
                 /\ UNCHANGED <<users, passcodes, posts, call, settings, extracted, requests>>
            ELSE /\ tasks' = [tasks EXCEPT ![t] = Raised(@, CheckViolation)]
                 /\ UNCHANGED <<users, passcodes, posts, call, settings, jobs, extracted, requests>>

\* Lines 112-125: the metadata the task adds to a vision result.
VisionMetadata(structured_data, doc) ==
    DictUpdate(IF HasKey(structured_data, "_metadata")
               THEN structured_data["_metadata"] ELSE EmptyDict,
               [extraction_method |-> "openai_vision_universal",
                document_type_hint |-> document_type(doc),
                detected_type |-> IF HasKey(structured_data, "document_type")
                                  THEN structured_data["document_type"] ELSE "unknown",
                file_format |-> file_format(doc),
                processor |-> "openai_gpt4_vision"])

\* Line 109: structured_data.get('extraction_status') != 'failed'.
VisionSucceeded(structured_data) ==
    ~(HasKey(structured_data, "extraction_status")
      /\ structured_data["extraction_status"] = "failed")

\* The locals of the task after an extraction step; page_errors counts the
\* pages whose engine call raised (the error logged at line 250 of
\* openai_service.py).
Extraction(successful, structured_data, method, error) ==
    [successful |-> successful, structured_data |-> structured_data,
     extraction_method |-> method, error |-> error, page_errors |-> 0]

PageErrors(scenario) ==
    Cardinality({i \in DOMAIN scenario.pages : scenario.pages[i] = "raises"})

\* Lines 75-78.
NoExtraction == Extraction(FALSE, EmptyDict, "unknown", NULL)

\* Lines 81-153: the vision attempt; every exception is caught (line 145).
VisionExtraction(doc, scenario) ==
    IF scenario.fault = "service"
    THEN NoExtraction
    ELSE LET structured_data == extract_universal_data(scenario) IN
         IF VisionSucceeded(structured_data)
         THEN [Extraction(TRUE,
                   DictSet(structured_data, "_metadata",
                           VisionMetadata(structured_data, doc)),
                   "openai_vision_universal", NULL)
               EXCEPT !.page_errors = PageErrors(scenario)]
         ELSE Extraction(FALSE, structured_data, "unknown", NULL)

\* Lines 192-201.
LocalMetadata(scenario, doc) ==
    [ocr_method |-> "ocr", pages |-> 1, text_length |-> scenario.text_length,
     document_type |-> document_type(doc), extraction_method |-> "ocr+ollama",
     file_format |-> file_format(doc), processor |-> "tesseract+ollama"]

LocalExtractionChecked(doc, scenario) ==
    IF scenario.ocr = "raises"
    THEN Extraction(FALSE, EmptyDict, "unknown", OcrError)
    ELSE IF scenario.text_length < MinTextLength
    THEN Extraction(FALSE, EmptyDict, "unknown", InsufficientText)
    ELSE IF ~VisionSucceeded(extract_data(scenario, document_type(doc)))
    THEN Extraction(FALSE, EmptyDict, "unknown", "Extraction failed")
    ELSE Extraction(TRUE,
             DictSet(extract_data(scenario, document_type(doc)),
                     "_metadata", LocalMetadata(scenario, doc)),
             "ocr+ollama", NULL)

LocalExtractionAnyLength(doc, scenario) ==
    IF scenario.ocr = "raises"
    THEN Extraction(FALSE, EmptyDict, "unknown", OcrError)
    ELSE Extraction(TRUE,
             DictSet(extract_data(scenario, document_type(doc)),
                     "_metadata", LocalMetadata(scenario, doc)),
             "ocr+ollama", NULL)

\* Lines 160-217: OCR, then the local model; an exception is re-raised.
LocalExtraction(doc, scenario) ==
    IF scenario.ocr = "raises"
    THEN Extraction(FALSE, EmptyDict, "unknown", OcrError)
    ELSE IF scenario.text_length < MinTextLength
    THEN Extraction(FALSE, EmptyDict, "unknown", InsufficientText)
    ELSE Extraction(TRUE,
             DictSet(extract_data(scenario, document_type(doc)),
                     "_metadata", LocalMetadata(scenario, doc)),
             "ocr+ollama", NULL)

RunExtractionVisionAlways(doc, vision, local) ==
    LET first == VisionExtraction(doc, vision)
    IN IF first.successful THEN first ELSE LocalExtraction(doc, local)

\* Lines 71-217: the strategy selection.  The local path runs when the vision
\* path is disabled or has not set extraction_successful.
RunExtraction(doc, vision, local) ==
    LET first == IF use_openai THEN VisionExtraction(doc, vision) ELSE NoExtraction
    IN IF first.successful THEN first ELSE LocalExtraction(doc, local)

\* Lines 71-228: the engines are called (no statement of these lines reads or
\* writes the database), then ExtractedData.objects.create runs under the
\* one-to-one constraint.
ExtractAndSave(t) ==
    /\ tasks[t].pc = "extract"
    /\ LET j == tasks[t].job_id
           doc == jobs[j].document
       IN \E vision \in VisionScenarios(doc), local \in LocalScenarios :
            LET e == RunExtraction(doc, vision, local) IN
            IF ~e.successful
            THEN /\ tasks' = [tasks EXCEPT ![t] = Raised(@, e.error)]
                 /\ extracted' = extracted
            ELSE IF RowsOf(j) # {}
            THEN /\ tasks' = [tasks EXCEPT ![t] = Raised(@, UniqueViolation)]
                 /\ extracted' = extracted
            ELSE /\ extracted' = Append(extracted,
                        NewExtractedData(j, e.structured_data, e.extraction_method))
                 /\ tasks' = [tasks EXCEPT ![t].pc = "complete",
                                           ![t].extraction_method = e.extraction_method,
                                           ![t].page_errors = e.page_errors]
    /\ UNCHANGED <<users, passcodes, posts, call, settings, jobs, requests>>

\* Lines 230-234.
CompletedRow(job) ==
    [job EXCEPT !.status = COMPLETED, !.completed_at = NOW,
                !.processing_time_seconds = POSITIVE]

\* Lines 230-250.
CompleteJob(t) ==
    /\ tasks[t].pc = "complete"
    /\ LET j == tasks[t].job_id IN
       IF CheckConstraints(CompletedRow(jobs[j]))
       THEN /\ jobs' = [jobs EXCEPT ![j] = Stored(CompletedRow(@))]
            /\ tasks' = [tasks EXCEPT ![t] = Finished(@,
                   [status |-> "success", job_id |-> j,
                    extraction_method |-> tasks[t].extraction_method])]
            /\ UNCHANGED <<users, passcodes, posts, call, settings, extracted, requests>>
       ELSE /\ tasks' = [tasks EXCEPT ![t] = Raised(@, CheckViolation)]
            /\ UNCHANGED <<users, passcodes, posts, call, settings, jobs, extracted, requests>>

\* Line 262: the handler loads the job again.
ReloadJob(t) ==
    /\ tasks[t].pc = "fail"
    /\ tasks' = [tasks EXCEPT ![t].pc = "fail_save",
                              ![t].retry_count = jobs[tasks[t].job_id].retry_count]
    /\ UNCHANGED <<users, passcodes, posts, call, settings, jobs, extracted, requests>>

FailedRowNotCounted(job, message, retry_count) ==
    [job EXCEPT !.status = FAILED, !.error_message = message,
                !.completed_at = NOW, !.retry_count = retry_count]

FailedRowKeepsStatus(job, message, retry_count) ==
    [job EXCEPT !.error_message = message,
                !.completed_at = NOW, !.retry_count = retry_count + 1]

\* Lines 263-266, on the job loaded at line 262.
FailedRow(job, message, retry_count) ==
    [job EXCEPT !.status = FAILED, !.error_message = message,
                !.completed_at = NOW, !.retry_count = retry_count + 1]

\* Line 274.
RetryCountdown(retries) == 60 * (retries + 1)

\* Lines 263-284: mark the job failed, then retry or give up.
FailJob(t, room) ==
    /\ tasks[t].pc = "fail_save"
    /\ LET j == tasks[t].job_id
           row == FailedRow(jobs[j], tasks[t].error, tasks[t].retry_count)
       IN /\ jobs' = IF CheckConstraints(row)
                     THEN [jobs EXCEPT ![j] = Stored(row)]
                     ELSE jobs
          /\ IF tasks[t].retries < max_retries
             THEN /\ room
                  /\ tasks' = Append(
                         [tasks EXCEPT ![t] = Finished(@, [status |-> "retry"])],
                         NewTask(j, tasks[t].retries + 1,
                                 RetryCountdown(tasks[t].retries)))
             ELSE tasks' = [tasks EXCEPT ![t] = Finished(@,
                      [status |-> "error", job_id |-> j, error |-> tasks[t].error,
                       retry_count |-> tasks[t].retries])]
    /\ UNCHANGED <<users, passcodes, posts, call, settings, extracted, requests>>

\* A caller hands a job identifier to the task queue: that of a job it can
\* see, or one that matches no job.
Deliveries == Cardinality({t \in TaskIds : tasks[t].retries = 0})

Enqueue(job_id, room) ==
    /\ room
    /\ Deliveries < MaxDeliveries
    /\ tasks' = Append(tasks, NewTask(job_id, 0, 0))
    /\ UNCHANGED <<users, passcodes, posts, call, settings, jobs, extracted, requests>>

(***************************************************************************)
(* DocumentViewSet.extract (documents/views.py)                            *)
(***************************************************************************)
HTTP_201_CREATED == 201
HTTP_400_BAD_REQUEST == 400
HTTP_500_INTERNAL_SERVER_ERROR == 500

NoResponse == [status_code |-> 0]

ProcessingJobs(d) ==
    {j \in JobIds : jobs[j].document = d /\ jobs[j].status = PROCESSING}

\* Lines 146-148: the jobs of the document that are pending or processing.
ActiveJobs(d) ==
    {j \in JobIds : jobs[j].document = d /\ jobs[j].status \in {PENDING, PROCESSING}}

\* .first() under Meta.ordering = ["-created_at"]: the job created last.
First(S) == CHOOSE j \in S : \A k \in S : k <= j

\* Lines 152-159.
ActiveJobResponse(active_job) ==
    [status_code |-> HTTP_400_BAD_REQUEST,
     error |-> "Document already has an active extraction job",
     job_id |-> active_job, status |-> jobs[active_job].status]

\* Lines 175-181: the serialized job is the view's own object.
CreatedResponse(job_id, job) ==
    [status_code |-> HTTP_201_CREATED,
     message |-> "Extraction job created successfully",
     job_id |-> job_id, status |-> job.status]

\* Lines 141-159: a request arrives and looks for an active job.
ExtractRequest(d) ==
    /\ Len(tasks) + Len(requests) < MaxApiCalls
    /\ requests' = Append(requests,
           IF ActiveJobs(d) # {}
           THEN [pc |-> "done", document |-> d, job_id |-> FakeJobId, job |-> NewJob(d),
                 error |-> NULL, response |-> ActiveJobResponse(First(ActiveJobs(d)))]
           ELSE [pc |-> "create", document |-> d, job_id |-> FakeJobId, job |-> NewJob(d),
                 error |-> NULL, response |-> NoResponse])
    /\ UNCHANGED <<users, passcodes, posts, call, settings, jobs, extracted, tasks>>

\* Lines 161-167.
CreateJob(r) ==
    /\ requests[r].pc = "create"
    /\ jobs' = Append(jobs, NewJob(requests[r].document))
    /\ requests' = [requests EXCEPT ![r].pc = "mock_start",
                                    ![r].job_id = Len(jobs) + 1,
                                    ![r].job = NewJob(requests[r].document)]
    /\ UNCHANGED <<users, passcodes, posts, call, settings, extracted, tasks>>

\* job.save() without update_fields writes every field of the view's object.
\* Lines 197-201.
MockStart(r) ==
    /\ requests[r].pc = "mock_start"
    /\ LET row == [requests[r].job EXCEPT !.status = PROCESSING, !.started_at = NOW] IN
       IF CheckConstraints(row)
       THEN /\ jobs' = [jobs EXCEPT ![requests[r].job_id] = Stored(row)]
            /\ requests' = [requests EXCEPT ![r].pc = "mock_extract",
                                            ![r].job = Stored(row)]
       ELSE /\ jobs' = jobs
            /\ requests' = [requests EXCEPT ![r].pc = "mock_fail",
                                            ![r].job = Stored(row),
                                            ![r].error = CheckViolation]
    /\ UNCHANGED <<users, passcodes, posts, call, settings, extracted, tasks>>

generate_mock_data(doc_type) ==
    IF doc_type = "invoice"
    THEN [vendor |-> "ACME Corporation", invoice_number |-> "INV-2024-001234",
          subtotal |-> 1250, tax |-> 125, total |-> 1375, currency |-> "USD",
          items |-> <<1, 2>>]
    ELSE [message |-> "Document processed", type |-> doc_type]

\* Lines 205-223.
MockExtract(r) ==
    /\ requests[r].pc = "mock_extract"
    /\ IF RowsOf(requests[r].job_id) # {}
       THEN /\ extracted' = extracted
            /\ requests' = [requests EXCEPT ![r].pc = "mock_fail",
                                            ![r].error = UniqueViolation]
       ELSE /\ extracted' = Append(extracted,
                   NewExtractedData(requests[r].job_id,
                       generate_mock_data(document_type(requests[r].document)), "mock"))
            /\ requests' = [requests EXCEPT ![r].pc = "mock_complete"]
    /\ UNCHANGED <<users, passcodes, posts, call, settings, jobs, tasks>>

\* Lines 225-231, then 173-181.
MockComplete(r) ==
    /\ requests[r].pc = "mock_complete"
    /\ LET row == CompletedRow(requests[r].job) IN
       IF CheckConstraints(row)
       THEN /\ jobs' = [jobs EXCEPT ![requests[r].job_id] = Stored(row)]
            /\ requests' = [requests EXCEPT ![r].pc = "done",
                   ![r].job = Stored(row),
                   ![r].response = CreatedResponse(requests[r].job_id, row)]
       ELSE /\ jobs' = jobs
            /\ requests' = [requests EXCEPT ![r].pc = "mock_fail",
                                            ![r].job = Stored(row),
                                            ![r].error = CheckViolation]
    /\ UNCHANGED <<users, passcodes, posts, call, settings, extracted, tasks>>

\* Lines 235-240, then 173-181; an exception of this save reaches line 183.
MockFail(r) ==
    /\ requests[r].pc = "mock_fail"
    /\ LET row == [requests[r].job EXCEPT !.status = FAILED,
                                          !.error_message = requests[r].error,
                                          !.completed_at = NOW] IN
       IF CheckConstraints(row)
       THEN /\ jobs' = [jobs EXCEPT ![requests[r].job_id] = Stored(row)]
            /\ requests' = [requests EXCEPT ![r].pc = "done",
                   ![r].job = Stored(row),
                   ![r].response = CreatedResponse(requests[r].job_id, row)]
       ELSE /\ jobs' = jobs
            /\ requests' = [requests EXCEPT ![r].pc = "done",
                   ![r].job = Stored(row),
                   ![r].response = [status_code |-> HTTP_500_INTERNAL_SERVER_ERROR,
                                    error |-> "Failed to create extraction job"]]
    /\ UNCHANGED <<users, passcodes, posts, call, settings, extracted, tasks>>

(***************************************************************************)
(* The system.                                                             *)
(***************************************************************************)
SettingsChoices ==
    {[USE_OPENAI |-> TRUE, OPENAI_API_KEY |-> "test-key"],
     [USE_OPENAI |-> TRUE, OPENAI_API_KEY |-> ""],
     [USE_OPENAI |-> FALSE, OPENAI_API_KEY |-> "test-key"]}

\* A document with one pending job, created by the caller of the task.
Init ==
    /\ settings \in SettingsChoices
    /\ jobs = <<NewJob("d1")>>
    /\ extracted = <<>>
    /\ tasks = <<>>
    /\ requests = <<>>
    /\ call = NoCall
    /\ users = <<>>
    /\ passcodes = <<>>
    /\ posts = <<>>

\* The task queue alone: deliveries, executions and retries.
QueueNext ==
    \/ \E job_id \in JobIds \cup {FakeJobId} : Enqueue(job_id, Len(tasks) < MaxTasks)
    \/ \E t \in TaskIds : StartTask(t)
    \/ \E t \in TaskIds : ExtractAndSave(t)
    \/ \E t \in TaskIds : CompleteJob(t)
    \/ \E t \in TaskIds : ReloadJob(t)
    \/ \E t \in TaskIds : FailJob(t, Len(tasks) < MaxTasks)

QueueSpec == Init /\ [][QueueNext]_vars

\* The task queue under the scheduling of a worker pool: a delivered message
\* is taken, an execution that can take its next step takes it, and a retry
\* always finds room in the queue.  Deliveries by callers are not forced; a
\* caller delivers while the chains delivered so far, counted at their full
\* length of 1 + max_retries executions, leave room.
Execution ==
    \E t \in TaskIds :
        \/ StartTask(t)
        \/ ExtractAndSave(t)
        \/ CompleteJob(t)
        \/ ReloadJob(t)
        \/ FailJob(t, TRUE)

FairNext ==
    \/ \E job_id \in JobIds \cup {FakeJobId} :
          Enqueue(job_id, (max_retries + 1) * Deliveries < MaxTasks)
    \/ Execution

FairSpec == Init /\ [][FairNext]_vars /\ WF_vars(Execution)

\* The API and the task queue together.
Next ==
    \/ \E job_id \in JobIds \cup {FakeJobId} : Enqueue(job_id, Len(tasks) + Len(requests) < MaxApiCalls)
    \/ \E t \in TaskIds : StartTask(t)
    \/ \E t \in TaskIds : ExtractAndSave(t)
    \/ \E t \in TaskIds : CompleteJob(t)
    \/ \E t \in TaskIds : ReloadJob(t)
    \/ \E t \in TaskIds : FailJob(t, Len(tasks) + Len(requests) < MaxApiCalls)
    \/ \E d \in Documents : ExtractRequest(d)
    \/ \E r \in RequestIds : CreateJob(r)
    \/ \E r \in RequestIds : MockStart(r)
    \/ \E r \in RequestIds : MockExtract(r)
    \/ \E r \in RequestIds : MockComplete(r)
    \/ \E r \in RequestIds : MockFail(r)

Spec == Init /\ [][Next]_vars

(***************************************************************************)
(* The helper functions, called on their own.                              *)
(***************************************************************************)
ConfidenceCall(data, text_length) ==
    [fn |-> "calculate_confidence", data |-> data, text |-> text_length,
     returned |-> FALSE, confidence |-> 0]

\* The page maps _merge_page_data is called with: what a page of the engine
\* can hold under the keys the function reads, and the per-page error
\* sentinel of _extract_from_image.
Optional(key, values) == {EmptyDict} \cup {[x \in {key} |-> v] : v \in values}

ItemLists == UNION {[1..n -> {1, 2}] : n \in 0..MaxItems}

PageMaps ==
    {[error |-> ConnectionError, page |-> 1]}
    \cup {DictUpdate(DictUpdate(fd, ef), DictUpdate(tc, md)) :
             fd \in Optional("financial_data",
                       {PyNone, EmptyDict} \cup {[line_items |-> li] : li \in ItemLists}),
             ef \in Optional("extracted_fields", {PyNone, [page_ref |-> 1]}),
             tc \in Optional("text_content", {<<>>, <<7>>}),
             md \in Optional("metadata", {PyNone, [page_number |-> 1]})}

MergeCall(page_data_list) ==
    [fn |-> "_merge_page_data", page_data_list |-> page_data_list,
     returned |-> FALSE, merged |-> EmptyDict]

CallInit ==
    /\ settings = [USE_OPENAI |-> FALSE, OPENAI_API_KEY |-> "test-key"]
    /\ jobs = <<>>
    /\ extracted = <<>>
    /\ tasks = <<>>
    /\ requests = <<>>
    /\ users = <<>>
    /\ passcodes = <<>>
    /\ posts = <<>>
    /\ \/ \E data \in FieldMaps, text_length \in TextLengths :
             call = ConfidenceCall(data, text_length)
       \/ \E p \in PageMaps : call = MergeCall(<<p>>)
       \/ \E p1 \in PageMaps, p2 \in PageMaps : call = MergeCall(<<p1, p2>>)
       \/ \E object \in ObjectTexts :
             \E text \in {object, Fenced(CodeFence, object), Fenced(JsonCodeFence, object)} :
                call = [fn |-> "_extract_json", object |-> object, text |-> text,
                        returned |-> FALSE, parsed |-> EmptyDict]
       \/ \E file_ext \in file_formats, direct_length \in {0, 49, 50} :
             call = [fn |-> "extract_text", file_ext |-> file_ext,
                     direct_length |-> direct_length, returned |-> FALSE,
                     result |-> EmptyDict]

CallConfidence ==
    /\ call.fn = "calculate_confidence"
    /\ ~call.returned
    /\ \E confidence \in calculate_confidence(call.data, call.text) :
          call' = [call EXCEPT !.returned = TRUE, !.confidence = confidence]
    /\ UNCHANGED <<users, passcodes, posts, settings, jobs, extracted, tasks, requests>>

CallMerge ==
    /\ call.fn = "_merge_page_data"
    /\ ~call.returned
    /\ call' = [call EXCEPT !.returned = TRUE,
                            !.merged = merge_page_data(call.page_data_list)]
    /\ UNCHANGED <<users, passcodes, posts, settings, jobs, extracted, tasks, requests>>

CallExtractJson ==
    /\ call.fn = "_extract_json"
    /\ ~call.returned
    /\ call' = [call EXCEPT !.returned = TRUE, !.parsed = extract_json(call.text)]
    /\ UNCHANGED <<users, passcodes, posts, settings, jobs, extracted, tasks, requests>>

CallExtractText ==
    /\ call.fn = "extract_text"
    /\ ~call.returned
    /\ call' = [call EXCEPT !.returned = TRUE,
                            !.result = extract_text(call.file_ext, call.direct_length)]
    /\ UNCHANGED <<users, passcodes, posts, settings, jobs, extracted, tasks, requests>>

CallNext ==
    \/ CallConfidence
    \/ CallMerge
    \/ CallExtractJson
    \/ CallExtractText

CallSpec == CallInit /\ [][CallNext]_vars

(***************************************************************************)
(* The authentication app (authentication/views.py, serializers.py and     *)
(* utils/utils.py).  Every database statement of a view is one atomic      *)
(* step; the two updates inside transaction.atomic() are one.  A passcode  *)
(* is created ten minutes ahead of the clock; of the clock only the order  *)
(* with expires_at is kept (expired or not), and it never stands exactly   *)
(* on expires_at.  Two reads of the same user row that follow each other   *)
(* in one request (the serializer's and the view's) are one step.          *)
(***************************************************************************)
HTTP_200_OK == 200
HTTP_410_GONE == 410
HTTP_429_TOO_MANY_REQUESTS == 429

VERIFICATION == "Email_Verification"
PASSWORD_RESET == "Password_Reset"

\* The code type a view works on.
code_type(view) ==
    IF view \in {"register", "verify-email", "resend-otp"} THEN VERIFICATION
    ELSE PASSWORD_RESET

NewUser(email) == [email |-> email, is_verified |-> FALSE, password |-> 0, deleted |-> FALSE]

NewPasscode(user, type) ==
    [user |-> user, code_type |-> type, expired |-> FALSE, is_used |-> FALSE,
     deleted |-> FALSE]

\* User.objects.get(email=email): the rows it can find (email is unique).
UserByEmail(email) == {u \in DOMAIN users : ~users[u].deleted /\ users[u].email = email}

\* Passcode.objects.filter(user=user, code_type=type): the rows of a user.
PasscodesOf(user, type) ==
    {p \in DOMAIN passcodes : /\ ~passcodes[p].deleted
                              /\ passcodes[p].user = user
                              /\ passcodes[p].code_type = type}

\* ... with is_used=False (at most one, by the constraint
\* unique_active_passcode_per_user_per_type).
Unused(user, type) == {p \in PasscodesOf(user, type) : ~passcodes[p].is_used}

\* The locals of a request to a view.
NewPost(view, email, otp) ==
    [view |-> view, email |-> email, otp |-> otp, pc |-> "arrived", user |-> 0,
     passcode |-> 0, read |-> "none", response |-> NoResponse]

\* The response of a view ends the request; its locals are dead from here
\* on, and of a request that succeeded the passcode it used is remembered.
Respond(post, status_code, message) ==
    [NewPost(post.view, "", 0) EXCEPT
        !.pc = "done",
        !.passcode = IF status_code = HTTP_200_OK THEN post.passcode ELSE 0,
        !.response = [status_code |-> status_code, message |-> message]]

\* PasswordResetRequestView: the one answer of lines 890-899 and 930-939.
ResetRequested(post) ==
    Respond(post, HTTP_200_OK,
            "If an account exists with this email, a password reset code has been sent.")

\* A registration arrives: UserRegistrationSerializer.validate_email and
\* create.
RegisterUser(email) ==
    /\ Len(posts) < MaxPosts
    /\ IF UserByEmail(email) # {}
       THEN /\ posts' = Append(posts, Respond(NewPost("register", email, 0),
                            HTTP_400_BAD_REQUEST, "A user with this email already exists."))
            /\ users' = users
       ELSE /\ users' = Append(users, NewUser(email))
            /\ posts' = Append(posts, [NewPost("register", email, 0) EXCEPT
                            !.pc = "otp_delete", !.user = Len(users) + 1])
    /\ UNCHANGED <<passcodes, settings, jobs, extracted, tasks, requests, call>>

\* A request to one of the other views arrives with the code it sends (0
\* where the view takes none): the user lookup, and what the view answers
\* without going on.
LoadUser(view, email, otp) ==
    /\ Len(posts) < MaxPosts
    /\ LET found == UserByEmail(email)
           post == NewPost(view, email, otp)
       IN posts' = Append(posts,
            IF found = {}
            THEN IF view = "password-reset-request" THEN ResetRequested(post)
                 ELSE Respond(post, HTTP_400_BAD_REQUEST,
                              "No account found with this email address.")
            ELSE IF view \in {"verify-email", "resend-otp"}
                    /\ \E u \in found : users[u].is_verified
            THEN Respond(post, HTTP_400_BAD_REQUEST, "This account is already verified.")
            ELSE [post EXCEPT !.user = CHOOSE u \in found : TRUE,
                              !.pc = IF view \in {"resend-otp", "password-reset-request"}
                                     THEN "existing" ELSE "passcode"])
    /\ UNCHANGED <<users, passcodes, settings, jobs, extracted, tasks, requests, call>>

\* Passcode.objects.get(user=user, code=otp, code_type=..., is_used=False) of
\* the three serializers that take a code, and the expiry test after it.
LoadPasscode(r) ==
    /\ posts[r].pc = "passcode"
    /\ LET view == posts[r].view
           found == Unused(posts[r].user, code_type(view)) \cap {posts[r].otp}
       IN posts' = [posts EXCEPT ![r] =
            IF found = {}
            THEN Respond(@, HTTP_400_BAD_REQUEST,
                         IF view = "verify-email"
                         THEN "Invalid verification code. Please check and try again."
                         ELSE "Invalid or expired reset code.")
            ELSE IF passcodes[posts[r].otp].expired
            THEN [@ EXCEPT !.passcode = posts[r].otp, !.read = "expired", !.pc = "expired"]
            ELSE IF view = "password-reset-verify"
            THEN Respond([@ EXCEPT !.passcode = posts[r].otp],
                         HTTP_200_OK, "Verification code is valid.")
            ELSE [@ EXCEPT !.passcode = posts[r].otp, !.read = "valid", !.pc = "commit"]]
    /\ UNCHANGED <<users, passcodes, settings, jobs, extracted, tasks, requests, call>>

\* An expired code refused like any other invalid code.
ExpiredResponseAsInvalid(post) ==
    Respond(post, HTTP_400_BAD_REQUEST,
            IF post.view = "verify-email"
            THEN "This verification code has expired. Please request a new one."
            ELSE "This reset code has expired. Please request a new one.")

\* What a view answers to the serializer's "expired" error: the
\* verification view looks for the word and answers 410, the others 400.
ExpiredResponse(post) ==
    Respond(post, IF post.view = "verify-email" THEN HTTP_410_GONE ELSE HTTP_400_BAD_REQUEST,
            IF post.view = "verify-email"
            THEN "This verification code has expired. Please request a new one."
            ELSE "This reset code has expired. Please request a new one.")

\* An expired code is marked used before the request is refused; a save
\* with update_fields that finds no row raises DatabaseError, which the
\* serializer turns into a plain validation error.
MarkExpired(r) ==
    /\ posts[r].pc = "expired"
    /\ LET p == posts[r].passcode IN
       IF passcodes[p].deleted
       THEN /\ posts' = [posts EXCEPT ![r] = Respond(@, HTTP_400_BAD_REQUEST,
                            "An unexpected error occurred. Please try again.")]
            /\ passcodes' = passcodes
       ELSE /\ passcodes' = [passcodes EXCEPT ![p].is_used = TRUE]
            /\ posts' = [posts EXCEPT ![r] = ExpiredResponse(@)]
    /\ UNCHANGED <<users, settings, jobs, extracted, tasks, requests, call>>

\* A transaction that writes the passcode row and leaves the user row as
\* it was.
CommittedUserUnchanged(user, r) == user

\* What the transaction of a view writes to the user row.
CommittedUser(user, r) ==
    IF posts[r].view = "verify-email" THEN [user EXCEPT !.is_verified = TRUE]
    ELSE [user EXCEPT !.password = r]

\* transaction.atomic() of EmailVerificationView and PasswordResetConfirmView:
\* the user row and the passcode row are written together or not at all.
Commit(r) ==
    /\ posts[r].pc = "commit"
    /\ LET u == posts[r].user
           p == posts[r].passcode
       IN IF users[u].deleted \/ passcodes[p].deleted
          THEN /\ posts' = [posts EXCEPT ![r] = Respond(@, HTTP_500_INTERNAL_SERVER_ERROR,
                               IF posts[r].view = "verify-email"
                               THEN "Failed to update verification status. Please try again."
                               ELSE "Failed to reset password. Please try again.")]
               /\ UNCHANGED <<users, passcodes>>
          ELSE /\ users' = [users EXCEPT ![u] = CommittedUser(@, r)]
               /\ passcodes' = [passcodes EXCEPT ![p].is_used = TRUE]
               /\ posts' = [posts EXCEPT ![r] = Respond(@, HTTP_200_OK,
                               IF posts[r].view = "verify-email"
                               THEN "Your email has been verified successfully! You can now log in to your account."
                               ELSE "Your password has been reset successfully. You can now log in.")]
    /\ UNCHANGED <<settings, jobs, extracted, tasks, requests, call>>

\* A resend that goes on to issue a passcode although it has read an active
\* one.
ActiveOtpIgnored(post) == [post EXCEPT !.pc = "otp_delete"]

\* What ResendOTPView answers when it has read an unused passcode that has
\* not expired.
ActiveOtpResponse(post) ==
    Respond(post, HTTP_429_TOO_MANY_REQUESTS, "An active verification code already exists.")

\* Passcode.objects.get(user=user, code_type=..., is_used=False) of
\* ResendOTPView and PasswordResetRequestView.
LoadExisting(r) ==
    /\ posts[r].pc = "existing"
    /\ LET found == Unused(posts[r].user, code_type(posts[r].view))
       IN posts' = [posts EXCEPT ![r] =
            IF found = {}
            THEN [@ EXCEPT !.read = "none", !.pc = "otp_delete"]
            ELSE IF \E p \in found : passcodes[p].expired
            THEN [@ EXCEPT !.passcode = CHOOSE p \in found : TRUE,
                           !.read = "expired", !.pc = "delete_expired"]
            ELSE IF posts[r].view = "resend-otp"
            THEN ActiveOtpResponse([@ EXCEPT !.passcode = CHOOSE p \in found : TRUE,
                                             !.read = "valid"])
            ELSE ResetRequested([@ EXCEPT !.passcode = CHOOSE p \in found : TRUE,
                                          !.read = "valid"])]
    /\ UNCHANGED <<users, passcodes, settings, jobs, extracted, tasks, requests, call>>

\* existing_otp.delete().
DeleteExpired(r) ==
    /\ posts[r].pc = "delete_expired"
    /\ passcodes' = [passcodes EXCEPT ![posts[r].passcode].deleted = TRUE]
    /\ posts' = [posts EXCEPT ![r].pc = "otp_delete"]
    /\ UNCHANGED <<users, settings, jobs, extracted, tasks, requests, call>>

\* create_otp_for_user, lines 68-71: every passcode of the user and type goes.
DeleteOtps(r) ==
    /\ posts[r].pc = "otp_delete"
    /\ passcodes' = [p \in DOMAIN passcodes |->
          IF p \in PasscodesOf(posts[r].user, code_type(posts[r].view))
          THEN [passcodes[p] EXCEPT !.deleted = TRUE] ELSE passcodes[p]]
    /\ posts' = [posts EXCEPT ![r].pc = "otp_create"]
    /\ UNCHANGED <<users, settings, jobs, extracted, tasks, requests, call>>

\* A password-reset request that passes the error of create_and_send_otp on
\* to the client, as the resend view does.
OtpFailedRevealed(post, message) ==
    IF post.view = "register" THEN [post EXCEPT !.pc = "rollback"]
    ELSE Respond(post, HTTP_500_INTERNAL_SERVER_ERROR, message)

\* Where a request goes when create_and_send_otp has returned an error.
OtpFailed(post, message) ==
    IF post.view = "register" THEN [post EXCEPT !.pc = "rollback"]
    ELSE IF post.view = "resend-otp"
    THEN Respond(post, HTTP_500_INTERNAL_SERVER_ERROR, message)
    ELSE ResetRequested(post)

\* What the view answers when the passcode is stored and the mail is out.
OtpSent(post) ==
    IF post.view = "register"
    THEN Respond(post, HTTP_201_CREATED, 
                 "Your account has been created successfully. Please check your email for the verification code.")
    ELSE IF post.view = "resend-otp"
    THEN Respond(post, HTTP_200_OK, "A new verification code has been sent to your email.")
    ELSE ResetRequested(post)

\* create_otp_for_user, lines 82-88, and send_code_to_user.  The insert
\* fails on the foreign key, on the constraint on unused passcodes, or on
\* anything else (a code that is taken, the database), and
\* create_and_send_otp catches it; after the insert the mail goes out, or
\* it fails and the new passcode is still to be deleted.
CreateOtp(r) ==
    /\ posts[r].pc = "otp_create"
    /\ LET u == posts[r].user
           type == code_type(posts[r].view)
       IN \E inserted \in BOOLEAN, sent \in BOOLEAN :
            IF inserted /\ ~users[u].deleted /\ Unused(u, type) = {}
            THEN /\ passcodes' = Append(passcodes, NewPasscode(u, type))
                 /\ posts' = [posts EXCEPT ![r] =
                       IF sent THEN OtpSent([@ EXCEPT !.passcode = Len(passcodes) + 1])
                       ELSE [@ EXCEPT !.pc = "otp_unsent",
                                      !.passcode = Len(passcodes) + 1]]
            ELSE /\ posts' = [posts EXCEPT ![r] = OtpFailed(@, "Failed to create OTP.")]
                 /\ passcodes' = passcodes
    /\ UNCHANGED <<users, settings, jobs, extracted, tasks, requests, call>>

\* create_and_send_otp, lines 283-290: otp.delete() after a mail that failed.
DeleteUnsent(r) ==
    /\ posts[r].pc = "otp_unsent"
    /\ passcodes' = [passcodes EXCEPT ![posts[r].passcode].deleted = TRUE]
    /\ posts' = [posts EXCEPT ![r] = OtpFailed(@, "Failed to send OTP email.")]
    /\ UNCHANGED <<users, settings, jobs, extracted, tasks, requests, call>>

\* A registration that answers its error and keeps the user row.
RolledBackUserKept(user) == user

\* user.delete() of a registration: the row goes, and by on_delete=CASCADE
\* the passcodes of the user go with it.
RolledBackUser(user) == [user EXCEPT !.deleted = TRUE]

\* UserRegistrationView.post, lines 81-89.  The answer carries the message
\* and the status of create_and_send_otp; of the two messages only their
\* common status, 500, is kept.
Rollback(r) ==
    /\ posts[r].pc = "rollback"
    /\ users' = [users EXCEPT ![posts[r].user] = RolledBackUser(@)]
    /\ passcodes' = [p \in DOMAIN passcodes |->
          IF passcodes[p].user = posts[r].user /\ users'[posts[r].user].deleted
          THEN [passcodes[p] EXCEPT !.deleted = TRUE] ELSE passcodes[p]]
    /\ posts' = [posts EXCEPT ![r] = Respond(@, HTTP_500_INTERNAL_SERVER_ERROR,
                     "Failed to create OTP. / Failed to send OTP email.")]
    /\ UNCHANGED <<settings, jobs, extracted, tasks, requests, call>>

\* Time passes the expires_at of a passcode.
Expire(p) ==
    /\ ~passcodes[p].deleted
    /\ ~passcodes[p].expired
    /\ passcodes' = [passcodes EXCEPT ![p].expired = TRUE]
    /\ UNCHANGED <<users, posts, settings, jobs, extracted, tasks, requests, call>>

\* One registered account and the request that was last to arrive:
\* the registration itself, answered, the account not yet verified and
\* holding the passcode of the registration; or a password-reset request,
\* answered, the account verified; or a resend request still running, which
\* has deleted the expired passcode of the registration and is about to
\* insert the new one.
AuthInit ==
    /\ settings = [USE_OPENAI |-> FALSE, OPENAI_API_KEY |-> "test-key"]
    /\ jobs = <<>>
    /\ extracted = <<>>
    /\ tasks = <<>>
    /\ requests = <<>>
    /\ call = NoCall
    /\ \/ /\ users = <<NewUser("a@example.com")>>
          /\ passcodes = <<NewPasscode(1, VERIFICATION)>>
          /\ posts = <<OtpSent(NewPost("register", "a@example.com", 0))>>
       \/ /\ users = <<[NewUser("a@example.com") EXCEPT !.is_verified = TRUE]>>
          /\ passcodes = <<[NewPasscode(1, VERIFICATION) EXCEPT !.is_used = TRUE],
                           NewPasscode(1, PASSWORD_RESET)>>
          /\ posts = <<OtpSent(NewPost("password-reset-request", "a@example.com", 0))>>
       \/ /\ users = <<NewUser("a@example.com")>>
          /\ passcodes = <<[NewPasscode(1, VERIFICATION) EXCEPT !.expired = TRUE,
                                                                 !.deleted = TRUE]>>
          /\ posts = <<[NewPost("resend-otp", "a@example.com", 0) EXCEPT
                           !.pc = "otp_create", !.user = 1, !.passcode = 1,
                           !.read = "expired"]>>

AuthNext ==
    \/ \E email \in {"a@example.com", "b@example.com"} : RegisterUser(email)
    \/ \E email \in {"a@example.com", "b@example.com"} :
         LoadUser("password-reset-request", email, 0)
    \/ LoadUser("resend-otp", "a@example.com", 0)
    \/ \E view \in {"verify-email", "password-reset-verify", "password-reset-confirm"},
          otp \in DOMAIN passcodes :
         LoadUser(view, "a@example.com", otp)
    \/ \E r \in DOMAIN posts : LoadPasscode(r)
    \/ \E r \in DOMAIN posts : MarkExpired(r)
    \/ \E r \in DOMAIN posts : Commit(r)
    \/ \E r \in DOMAIN posts : LoadExisting(r)
    \/ \E r \in DOMAIN posts : DeleteExpired(r)
    \/ \E r \in DOMAIN posts : DeleteOtps(r)
    \/ \E r \in DOMAIN posts : CreateOtp(r)
    \/ \E r \in DOMAIN posts : DeleteUnsent(r)
    \/ \E r \in DOMAIN posts : Rollback(r)
    \/ \E p \in DOMAIN passcodes : Expire(p)

AuthSpec == AuthInit /\ [][AuthNext]_vars

(***************************************************************************)
(* Properties of the job state machine.                                    *)
(***************************************************************************)
TasksOf(j) == {t \in TaskIds : tasks[t].job_id = j}
Running(t) == tasks[t].pc \notin {"queued", "done"}
Active(j) == jobs[j].status = PENDING \/ jobs[j].status = PROCESSING

\* C1: over the executions of process_document_task (first run, retries,
\* repeated deliveries) a job's status only moves PENDING -> PROCESSING ->
\* COMPLETED or FAILED, and a status that is COMPLETED or FAILED never changes.
C1_StatusOnlyMovesForward ==
    [][\A j \in JobIds :
          \/ jobs'[j].status = jobs[j].status
          \/ jobs[j].status = PENDING /\ jobs'[j].status = PROCESSING
          \/ jobs[j].status = PROCESSING /\ jobs'[j].status \in {COMPLETED, FAILED}]_vars

\* C2: in every reachable state each document has at most one job whose
\* status is PENDING or PROCESSING.
C2_AtMostOneActiveJob ==
    \A d \in Documents :
        Cardinality({j \in JobIds : jobs[j].document = d /\ Active(j)}) <= 1

\* C3: after any sequence of executions of the task on a job (every one of
\* them has returned), a COMPLETED job has exactly one ExtractedData row and a
\* FAILED job has none.
C3_RowIffCompleted ==
    \A j \in JobIds :
        (\A t \in TasksOf(j) : tasks[t].pc = "done")
        => /\ jobs[j].status = COMPLETED => Cardinality(RowsOf(j)) = 1
           /\ jobs[j].status = FAILED => RowsOf(j) = {}

\* C4: a job that was delivered once and whose every attempt failed, with no
\* execution running and no retry queued, is FAILED with retry_count = 3.
C4_ExhaustedRetryCount ==
    \A j \in JobIds :
        ( /\ Cardinality({t \in TasksOf(j) : tasks[t].retries = 0}) = 1
          /\ \A t \in TasksOf(j) :
                 tasks[t].pc = "done" /\ tasks[t].result.status \in {"retry", "error"} )
        => jobs[j].status = FAILED /\ jobs[j].retry_count = 3

\* C5: an execution in which a vision engine call raised and that went on to
\* write an ExtractedData row wrote it with the fallback's tag 'ocr+ollama'.
C5_EngineErrorFallsBack ==
    \A t \in TaskIds :
        tasks[t].pc = "complete" /\ tasks[t].page_errors > 0
        => /\ tasks[t].extraction_method = "ocr+ollama"
           /\ \A i \in RowsOf(tasks[t].job_id) :
                  extracted[i].extraction_method = "ocr+ollama"

\* C6: when the fallback raises, the execution goes to the failure handler
\* without writing a row, and the handler's save leaves the job FAILED with
\* error_message the exception's text, completed_at set and retry_count one
\* more than the value the handler loaded (line 262); it writes no row either.
\* When the job was delivered once, its executions follow one another and the
\* stored retry_count itself grows by exactly 1.
FallbackErrors == {OcrError, InsufficientText}

C6_FallbackFailureMarksJob ==
    [][\A t \in TaskIds :
          LET j == tasks[t].job_id IN
          /\ ( tasks[t].pc = "extract" /\ tasks'[t].pc = "fail" )
             => extracted' = extracted /\ jobs' = jobs
          /\ ( tasks[t].pc = "fail_save" /\ tasks'[t].pc = "done"
               /\ tasks[t].error \in FallbackErrors )
             => /\ jobs'[j].status = FAILED
                /\ jobs'[j].error_message = tasks[t].error
                /\ jobs'[j].completed_at = SET
                /\ jobs'[j].retry_count = tasks[t].retry_count + 1
                /\ jobs'[j].started_at = jobs[j].started_at
                /\ Cardinality({d \in TasksOf(j) : tasks[d].retries = 0}) = 1
                   => jobs'[j].retry_count = jobs[j].retry_count + 1
                /\ extracted' = extracted]_vars

C6_Witness ==
    \E t \in TaskIds :
        /\ tasks[t].pc = "done"
        /\ tasks[t].error \in FallbackErrors
        /\ jobs[tasks[t].job_id].status = FAILED
        /\ jobs[tasks[t].job_id].retry_count = 1

\* C7: once an ExtractedData write of an execution has hit the uniqueness
\* violation, the job is not left FAILED (no execution of it running) while
\* the row of the execution that succeeded exists.
C7_UniquenessViolationKeepsState ==
    \A j \in JobIds :
        ( /\ \E t \in TasksOf(j) : tasks[t].error = UniqueViolation
          /\ \A t \in TasksOf(j) : ~Running(t)
          /\ jobs[j].status = FAILED )
        => RowsOf(j) = {}

\* C8: a step that changes a stored job is a step of process_document_task,
\* and when an extract request returns 201 its job is PENDING.
C8_OnlyTheTaskMutatesJobs ==
    [][/\ \A j \in JobIds : jobs'[j] # jobs[j] => requests' = requests
       /\ \A r \in RequestIds :
             ( requests[r].pc # "done" /\ requests'[r].pc = "done"
               /\ requests'[r].response.status_code = HTTP_201_CREATED )
             => jobs'[requests[r].job_id].status = PENDING]_vars

\* C9: an execution whose identifier matches no job returns the error result
\* 'Job not found', changes no row of either table and schedules no retry.
C9_MissingJobChangesNothing ==
    [][\A t \in TaskIds :
          ( tasks[t].pc = "queued" /\ tasks[t].job_id \notin JobIds
            /\ tasks'[t] # tasks[t] )
          => /\ tasks'[t].pc = "done"
             /\ tasks'[t].result = [status |-> "error", message |-> "Job not found"]
             /\ jobs' = jobs
             /\ extracted' = extracted
             /\ Len(tasks') = Len(tasks)]_vars

C9_Witness ==
    \E t \in TaskIds :
        /\ tasks[t].job_id \notin JobIds
        /\ tasks[t].pc = "done"
        /\ tasks[t].result.status = "error"

\* C10: an extract request for a document that has a job in PENDING or
\* PROCESSING is answered 400 with the id of such a job; it creates no job
\* and changes no stored job.
C10_ActiveJobRejectsRequest ==
    [][\A d \in Documents :
          ( /\ \E j \in JobIds : jobs[j].document = d /\ Active(j)
            /\ Len(requests') = Len(requests) + 1
            /\ requests'[Len(requests')].document = d )
          => LET request == requests'[Len(requests')] IN
             /\ request.pc = "done"
             /\ request.response.status_code = 400
             /\ request.response.job_id \in JobIds
             /\ jobs[request.response.job_id].document = d
             /\ Active(request.response.job_id)
             /\ jobs' = jobs
             /\ extracted' = extracted]_vars

C10_Witness ==
    \E r \in RequestIds :
        /\ requests[r].pc = "done"
        /\ requests[r].response.status_code = 400
        /\ requests[r].response.status = PROCESSING

(***************************************************************************)
(* Properties of the local path, the method tag, the retry delay.          *)
(***************************************************************************)
IsSkeleton(data) ==
    /\ HasKey(data, "extraction_status")
    /\ data["extraction_status"] = "failed"

Without(d, k) == [x \in (DOMAIN d) \ {k} |-> d[x]]

EngineFailed == [ocr |-> "ok", text_length |-> MinTextLength, ai |-> "fails"]

\* C11: a failing or unparseable answer of the local model does not fail the
\* execution: the extractor returns the fallback skeleton of the document
\* type, the execution persists it (with the task's _metadata) and its next
\* step completes the job.
C11_SkeletonCompletesJob ==
    [][/\ extract_data(EngineFailed, "invoice") = get_fallback_invoice_data
       /\ \A d \in Documents :
             /\ LocalExtraction(d, EngineFailed).successful
             /\ Without(LocalExtraction(d, EngineFailed).structured_data, "_metadata")
                    = extract_data(EngineFailed, document_type(d))
       /\ \A t \in TaskIds :
             LET j == tasks[t].job_id IN
             ( /\ tasks[t].pc = "complete"
               /\ \E i \in RowsOf(j) : IsSkeleton(extracted[i].data)
               /\ tasks'[t] # tasks[t] )
             => /\ tasks'[t].pc = "done"
                /\ tasks'[t].result.status = "success"
                /\ jobs'[j].status = COMPLETED
                /\ extracted' = extracted
                /\ \A i \in RowsOf(j) :
                       Without(extracted[i].data, "_metadata") = get_fallback_invoice_data]_vars

C11_Witness ==
    \E t \in TaskIds :
        /\ tasks[t].pc = "done"
        /\ tasks[t].result.status = "success"
        /\ jobs[tasks[t].job_id].status = COMPLETED
        /\ \E i \in RowsOf(tasks[t].job_id) :
               /\ IsSkeleton(extracted[i].data)
               /\ extracted[i].extraction_method = "ocr+ollama"

ShortText(n) == [ocr |-> "ok", text_length |-> n, ai |-> "ok"]

\* C12: with fewer than 10 characters of OCR text the local path raises the
\* insufficient-text error without calling the extractor (with 10 it goes
\* on); the execution writes no row and its handler leaves the job FAILED with
\* that error message.
C12_InsufficientTextFailsAttempt ==
    [][/\ \A d \in Documents :
             /\ \A n \in 0..(MinTextLength - 1) :
                    LocalExtraction(d, ShortText(n))
                        = Extraction(FALSE, EmptyDict, "unknown", InsufficientText)
             /\ LocalExtraction(d, ShortText(MinTextLength)).successful
       /\ \A t \in TaskIds :
             LET j == tasks[t].job_id IN
             /\ ( tasks[t].pc = "extract" /\ tasks'[t].error = InsufficientText )
                => tasks'[t].pc = "fail" /\ extracted' = extracted /\ jobs' = jobs
             /\ ( tasks[t].pc = "fail_save" /\ tasks[t].error = InsufficientText
                  /\ tasks'[t] # tasks[t] )
                => /\ jobs'[j].status = FAILED
                   /\ jobs'[j].error_message = InsufficientText
                   /\ extracted' = extracted]_vars

C12_Witness ==
    \E j \in JobIds :
        /\ jobs[j].status = FAILED
        /\ jobs[j].error_message = InsufficientText
        /\ RowsOf(j) = {}
        /\ \E t \in TasksOf(j) : tasks[t].pc = "done" /\ tasks[t].error = InsufficientText

VisionOutputs(doc) == {extract_universal_data(v) : v \in VisionScenarios(doc) \ {[fault |-> "service", pages |-> <<>>]}}
LocalOutputs(doc) == {extract_data(l, document_type(doc)) : l \in LocalScenarios}

\* C13: every ExtractedData row of the task carries the tag of the strategy
\* whose output it holds: 'ocr+ollama' with an output of the local extractor,
\* or 'openai_vision_universal' with an output of the vision service; with
\* the vision engine disabled the tag is 'ocr+ollama'; it is never 'unknown'.
C13_RowTaggedWithItsStrategy ==
    \A i \in DOMAIN extracted :
        LET row == extracted[i]
            doc == jobs[row.extraction_job].document
        IN /\ row.extraction_method \in {"ocr+ollama", "openai_vision_universal"}
           /\ row.data["_metadata"]["extraction_method"] = row.extraction_method
           /\ row.extraction_method = "ocr+ollama"
              => Without(row.data, "_metadata") \in LocalOutputs(doc)
           /\ row.extraction_method = "openai_vision_universal"
              => use_openai /\ Without(row.data, "_metadata") \in VisionOutputs(doc)
           /\ ~use_openai => row.extraction_method = "ocr+ollama"

C13_Witness ==
    /\ ~use_openai
    /\ \E i \in DOMAIN extracted : extracted[i].extraction_method = "ocr+ollama"

\* C14: when a failed attempt schedules a retry, the delay of the retry is
\* 60 seconds times the job's retry_count as that failure has just stored it.
C14_RetryDelayFollowsRetryCount ==
    [][\A t \in TaskIds :
          ( tasks[t].pc = "fail_save" /\ Len(tasks') = Len(tasks) + 1
            /\ tasks'[t].pc = "done" )
          => tasks'[Len(tasks')].countdown
                 = 60 * jobs'[tasks[t].job_id].retry_count]_vars

\* C15: once the task has run on an existing job (every execution has
\* returned), the job is COMPLETED or FAILED and processing_time_seconds is
\* not null.
C15_ProcessingTimeSetAfterRun ==
    \A j \in JobIds :
        ( TasksOf(j) # {} /\ \A t \in TasksOf(j) : tasks[t].pc = "done" )
        => /\ jobs[j].status \in {COMPLETED, FAILED}
           /\ jobs[j].processing_time_seconds # NULL

(***************************************************************************)
(* Properties of calculate_confidence.                                     *)
(***************************************************************************)
ConfidenceReturned == call.fn = "calculate_confidence" /\ call.returned

\* C16: calculate_confidence returns a value in [0, 1] for every field map
\* and text, and exactly 0.5 when the map has no scored field.
C16_ConfidenceInUnitInterval ==
    ConfidenceReturned
    => /\ call.confidence >= 0
       /\ call.confidence <= 100
       /\ (\A key \in DOMAIN call.data : Skipped(key)) => call.confidence = 50

C16_Witness ==
    /\ ConfidenceReturned
    /\ call.data # EmptyDict
    /\ \A key \in DOMAIN call.data : Skipped(key)
    /\ call.confidence = 50

AllFilled(data) ==
    /\ total_fields(data) > 0
    /\ \A key \in DOMAIN data : ~Skipped(key) => Filled(data[key])

\* C17: for a field map whose scored fields are all filled and a non-empty
\* text, calculate_confidence returns more than 0.7.
C17_AllFilledAboveSeventy ==
    ( ConfidenceReturned /\ AllFilled(call.data) /\ call.text > 0 )
    => call.confidence > 70

\* C18: for a field map with unfilled fields (none filled, or one filled out
\* of three) and a short text, calculate_confidence returns a value strictly
\* between 0.3 and 0.8.
C18_PartialBetweenThirtyAndEighty ==
    ( /\ ConfidenceReturned
      /\ total_fields(call.data) > 0
      /\ \/ filled_fields(call.data) = 0
         \/ total_fields(call.data) = 3 /\ filled_fields(call.data) = 1
      /\ call.text > 0 /\ call.text < 20 )
    => call.confidence > 30 /\ call.confidence < 80

(***************************************************************************)
(* Properties of _merge_page_data.                                         *)
(***************************************************************************)
MergeReturned == call.fn = "_merge_page_data" /\ call.returned

HasLineItems(page_data) ==
    /\ HasKey(page_data, "financial_data")
    /\ page_data["financial_data"] # PyNone
    /\ HasKey(page_data["financial_data"], "line_items")

\* C19: merging a list that holds one page returns that page as it is, the
\* per-page error sentinel included.
C19_SinglePageIsReturned ==
    ( MergeReturned /\ Len(call.page_data_list) = 1 )
    => call.merged = call.page_data_list[1]

C19_Witness ==
    /\ MergeReturned
    /\ Len(call.page_data_list) = 1
    /\ HasKey(call.page_data_list[1], "error")
    /\ call.merged = call.page_data_list[1]

\* C20: merging two pages that hold line items returns the line items of
\* the first page followed by those of the second, each as it was when the
\* function was called: none lost, none removed as a duplicate, so the
\* length is the sum of the two lengths.
C20_LineItemsConcatenated ==
    ( /\ MergeReturned
      /\ Len(call.page_data_list) = 2
      /\ HasLineItems(call.page_data_list[1])
      /\ HasLineItems(call.page_data_list[2]) )
    => LET p1 == call.page_data_list[1]["financial_data"]["line_items"]
           p2 == call.page_data_list[2]["financial_data"]["line_items"]
       IN /\ HasLineItems(call.merged)
          /\ call.merged["financial_data"]["line_items"] = p1 \o p2
          /\ Len(call.merged["financial_data"]["line_items"]) = Len(p1) + Len(p2)

C20_Witness ==
    /\ MergeReturned
    /\ Len(call.page_data_list) = 2
    /\ HasLineItems(call.page_data_list[1])
    /\ HasLineItems(call.page_data_list[2])
    /\ call.page_data_list[1]["financial_data"]["line_items"] = <<1>>
    /\ call.page_data_list[2]["financial_data"]["line_items"] = <<1>>
    /\ call.merged["financial_data"]["line_items"] = <<1, 1>>


(***************************************************************************)
(* Properties of _extract_json and of OCRService.extract_text.             *)
(***************************************************************************)
\* C21: JSON recovery of a JSON object text, bare or inside one layer of
\* fence markers, returns what plain JSON parsing returns for the object
\* text.
C21_RecoveryEqualsParsing ==
    ( call.fn = "_extract_json" /\ call.returned )
    => call.parsed = json_loads(call.object)

\* C22: extract_text on a raster image of a format the Document model
\* accepts returns one page recognised by OCR.
C22_AcceptedRasterIsRecognised ==
    ( call.fn = "extract_text" /\ call.returned /\ call.file_ext # "pdf" )
    => call.result = [pages |-> 1, method |-> "ocr"]


(***************************************************************************)
(* Termination of the retry chain.                                         *)
(***************************************************************************)
Settled ==
    /\ \A t \in TaskIds : tasks[t].pc = "done"
    /\ \A j \in JobIds : TasksOf(j) # {} => jobs[j].status \in {COMPLETED, FAILED}

\* C30: when executions run to their end and retries are delivered, every
\* job that was started ends COMPLETED or FAILED with no execution or retry
\* left, and a job is executed at most 1 + max_retries times per delivery.
C30_StartedJobsSettle ==
    /\ [](\A j \in JobIds \cup {FakeJobId} :
            Cardinality(TasksOf(j))
               <= (max_retries + 1) * Cardinality({t \in TasksOf(j) : tasks[t].retries = 0}))
    /\ <>[]Settled

C30_Witness ==
    /\ Settled
    /\ jobs[1].status = FAILED
    /\ \E t \in TasksOf(1) : tasks[t].retries = max_retries
    /\ \E t \in TasksOf(1) : tasks[t].result.status = "success"

(***************************************************************************)
(* Properties of the authentication views.                                 *)
(***************************************************************************)
\* The request answers in this step.
Answers(r) == posts[r].pc # "done" /\ posts'[r].pc = "done"

\* The request writes its transaction in this step.
Commits(r, view) == posts[r].view = view /\ posts[r].pc = "commit" /\ Answers(r)

\* C23 as the specification states it: a verification request that has read
\* a valid, unexpired, unused passcode of the user always leaves the user
\* verified and the passcode used.
C23_ValidCodeAlwaysVerifies ==
    [][\A r \in DOMAIN posts :
         Commits(r, "verify-email") /\ posts[r].read = "valid"
         => /\ posts'[r].response.status_code = HTTP_200_OK
            /\ users'[posts[r].user].is_verified
            /\ passcodes'[posts[r].passcode].is_used]_vars

\* C23: a verification request that has read a valid, unexpired, unused
\* passcode, and whose user row and passcode row are still there when it
\* writes, leaves the user verified and the passcode used and answers 200;
\* when one of the rows has been deleted meanwhile it answers 500 and
\* writes nothing.  The two writes are one step: is_verified changes only
\* in a step that also leaves the passcode of the request used.
C23_VerificationIsAtomic ==
    [][/\ \A r \in DOMAIN posts :
            Commits(r, "verify-email") /\ posts[r].read = "valid"
            => IF users[posts[r].user].deleted \/ passcodes[posts[r].passcode].deleted
               THEN /\ posts'[r].response.status_code = HTTP_500_INTERNAL_SERVER_ERROR
                    /\ users' = users
                    /\ passcodes' = passcodes
               ELSE /\ posts'[r].response.status_code = HTTP_200_OK
                    /\ users'[posts[r].user].is_verified
                    /\ passcodes'[posts[r].passcode].is_used
       /\ \A u \in DOMAIN users :
            users'[u].is_verified # users[u].is_verified
            => \E r \in DOMAIN posts :
                 /\ Commits(r, "verify-email")
                 /\ posts[r].user = u
                 /\ users'[u].is_verified
                 /\ passcodes'[posts[r].passcode].is_used]_vars

C23_Witness ==
    \E r \in DOMAIN posts :
        /\ posts[r].view = "verify-email"
        /\ posts[r].response.status_code = HTTP_200_OK
        /\ passcodes[posts[r].passcode].is_used
        /\ \E u \in DOMAIN users : users[u].is_verified /\ passcodes[posts[r].passcode].user = u

\* The request refuses in this step the expired passcode it has read.
RefusesExpired(r) ==
    posts[r].view = "verify-email" /\ posts[r].pc = "expired" /\ Answers(r)

\* C24 as the specification states it: a verification request that has read
\* a matching but expired passcode is always answered 410, and the user
\* stays unverified.
C24_ExpiredCodeAlwaysGone ==
    [][\A r \in DOMAIN posts :
         RefusesExpired(r)
         => /\ posts'[r].response.status_code = HTTP_410_GONE
            /\ ~users'[posts[r].user].is_verified]_vars

\* C24: a verification request that has read a matching but expired
\* passcode is answered 410 when the passcode row is still there to be
\* marked used, and 400 when another request has deleted it meanwhile; the
\* request leaves the passcode used and writes nothing to the user.
C24_ExpiredCodeIsGone ==
    [][\A r \in DOMAIN posts :
         RefusesExpired(r)
         => /\ posts'[r].response.status_code =
                  IF passcodes[posts[r].passcode].deleted
                  THEN HTTP_400_BAD_REQUEST ELSE HTTP_410_GONE
            /\ passcodes[posts[r].passcode].deleted \/ passcodes'[posts[r].passcode].is_used
            /\ users' = users]_vars

C24_Witness ==
    \E r \in DOMAIN posts, p \in DOMAIN passcodes :
        /\ posts[r].view = "verify-email"
        /\ posts[r].response.status_code = HTTP_410_GONE
        /\ passcodes[p].expired /\ passcodes[p].is_used /\ ~passcodes[p].deleted
        /\ ~users[passcodes[p].user].is_verified

\* The unused verification passcodes of the user that have not expired.
ActiveOtps(u) == {p \in Unused(u, VERIFICATION) : ~passcodes[p].expired}

\* C25: a resend request that finds an unexpired, unused passcode of the
\* unverified user is answered 429 and writes no passcode; a resend request
\* inserts a passcode only after it has found none or an expired one, and
\* only when the user holds no unused passcode at the insert.
C25_ActiveOtpRefusesResend ==
    [][\A r \in DOMAIN posts :
         posts[r].view = "resend-otp"
         => /\ (posts[r].pc = "existing" /\ posts'[r] # posts[r]
                  /\ ActiveOtps(posts[r].user) # {}
                  /\ Unused(posts[r].user, VERIFICATION) = ActiveOtps(posts[r].user))
               => /\ posts'[r].response.status_code = HTTP_429_TOO_MANY_REQUESTS
                  /\ passcodes' = passcodes
            /\ (posts[r].pc = "otp_create" /\ posts'[r] # posts[r]
                  /\ Len(passcodes') > Len(passcodes))
               => /\ posts[r].read \in {"none", "expired"}
                  /\ Unused(posts[r].user, VERIFICATION) = {}]_vars

C25_Witness ==
    \E r \in DOMAIN posts, p \in DOMAIN passcodes :
        /\ posts[r].view = "resend-otp"
        /\ posts[r].response.status_code = HTTP_429_TOO_MANY_REQUESTS
        /\ passcodes[p].code_type = VERIFICATION
        /\ ~passcodes[p].is_used /\ ~passcodes[p].expired /\ ~passcodes[p].deleted

\* C26: a registration whose passcode could not be created or mailed is
\* answered with an error, and when it is answered no user row holds the
\* submitted email.
C26_FailedOtpRemovesUser ==
    [][\A r \in DOMAIN posts :
         (posts[r].view = "register" /\ posts[r].pc \in {"otp_create", "otp_unsent"}
            /\ posts'[r].pc = "rollback")
         \/ (posts[r].view = "register" /\ posts[r].pc = "rollback" /\ posts'[r] # posts[r])
         => \/ posts'[r].pc = "rollback" /\ posts'[r].response = NoResponse
            \/ /\ posts'[r].pc = "done"
               /\ posts'[r].response.status_code = HTTP_500_INTERNAL_SERVER_ERROR
               /\ \A u \in DOMAIN users' : users'[u].email = posts[r].email => users'[u].deleted
               /\ \A p \in DOMAIN passcodes' :
                    passcodes'[p].user = posts[r].user => passcodes'[p].deleted]_vars

C26_Witness ==
    \E r \in DOMAIN posts, u \in DOMAIN users :
        /\ posts[r].view = "register"
        /\ posts[r].response.status_code = HTTP_500_INTERNAL_SERVER_ERROR
        /\ users[u].email = "b@example.com"
        /\ users[u].deleted

Succeeded(view, p) ==
    {r \in DOMAIN posts : /\ posts[r].view = view
                          /\ posts[r].pc = "done"
                          /\ posts[r].response.status_code = HTTP_200_OK
                          /\ posts[r].passcode = p}

\* C28: a password-reset passcode completes at most one reset: once a
\* confirm request has succeeded with it, no other confirm request and no
\* verify request succeeds with the same code.
C28_OneResetPerCode ==
    [][\A r \in DOMAIN posts :
         (posts[r].view \in {"password-reset-confirm", "password-reset-verify"}
            /\ Answers(r) /\ posts'[r].response.status_code = HTTP_200_OK)
         => Succeeded("password-reset-confirm", posts'[r].passcode) = {}]_vars

\* C29: when no request is running, a user holds at most one passcode row
\* of each code type, used or not, and at most one unused one.
C29_OnePasscodePerType ==
    (\A r \in DOMAIN posts : posts[r].pc = "done")
    => \A u \in DOMAIN users, type \in {VERIFICATION, PASSWORD_RESET} :
         /\ Cardinality(PasscodesOf(u, type)) <= 1
         /\ Cardinality(Unused(u, type)) <= 1

====
